---- MODULE Spec2Model ----
(***************************************************************************)
(* docflow2 backend: the status state machine of ProcessingRun and         *)
(* ProcessedDocument (app/crud/processing_run.py), the retryable Celery    *)
(* task process_document_task (app/tasks/document_tasks.py), the           *)
(* synchronous extract route (app/api/routes/extraction.py), the folder   *)
(* trigger scanner (app/services/folder_trigger_service.py) and the        *)
(* reconciliation of an engine response with the requested fields          *)
(* (app/services/llm_service.py, app/services/ocr_service.py).             *)
(*                                                                         *)
(* Every crud function commits once, so one crud call is one atomic step;  *)
(* a task, a route or a scanner iteration that makes several crud calls is *)
(* a process whose position (pc) is part of the state, and requests of     *)
(* users interleave with it between its steps.  Two commits of one process *)
(* that follow one another with nothing but a raise between them (the      *)
(* "not initialized" branches) are taken as one step.                      *)
(*                                                                         *)
(* UUIDs are modelled by small integers handed out in order.  Deleting a   *)
(* run or a document type is not modelled.  Of an engine response the      *)
(* reconciliation reads "fields" and "tables"; a cell given as an object   *)
(* {"value", "confidence"} and a confidence that is not a number are not   *)
(* modelled.                                                               *)
(***************************************************************************)
EXTENDS Naturals, FiniteSets, Sequences

\* ---------------------------------------------------------------- bounds
\* ids of documents and runs
MaxDocs == 4
MaxRuns == 2
\* documents that uploads and the scanner create in one behaviour of Spec
MaxCreated == 1
\* submissions of process_document_task in one behaviour of SpecTask, and
\* uploads in one behaviour of SpecStatus
MaxSubmitted == 2
\* documents the scanner creates in one behaviour of SpecScan
MaxScanned == 2
\* raw fields of a document type; entries of "fields" and tables of a response
MaxFields == 2
MaxEntries == 1
MaxTables == 2
\* lines of an OCR text
MaxLines == 2
\* records stored in a document's extracted_fields
MaxStored == 2
\* blocks of an OCR result handed to the coordinate locator
MaxBlocks == 3
\* document types offered to the classifier
MaxTypes == 2

\* ------------------------------------------------------ program constants
\* @celery_app.task(bind=True, max_retries=3)
max_retries == 3
\* run_celery.py: "--concurrency=2", the worker runs up to two tasks at a time
concurrency == 2

Docs == 1..MaxDocs
\* the worker's slots, for the executions of scan_folder_triggers
Scanners == 1..concurrency
Runs == 1..MaxRuns
\* file names of uploads, and the files of the trigger's folder
Names == {"a.pdf", "b.png"}
FolderFiles == {"f.pdf", "g.png"}

\* DocumentStatus / ProcessingStatus; "none" marks an id not handed out yet.
PROCESSING == "processing"
NEEDS_REVIEW == "needs_review"
REVIEWED == "reviewed"
ERROR == "error"
Statuses == {PROCESSING, NEEDS_REVIEW, REVIEWED, ERROR}

VARIABLES
    ocrInitialized,  \* ocr_service.OCR_INITIALIZED, fixed at start-up
    runStatus,       \* ProcessingRun.status per run id
    docStatus,       \* ProcessedDocument.status per document id
    docRun,          \* ProcessedDocument.processing_run_id (0: no such document)
    docName,         \* ProcessedDocument.filename ("": no such document)
    docKey,          \* ProcessedDocument.file_path, the storage key
    docData,         \* ocr_result + extracted_fields: 0 is ({}, []), n > 0 the
                     \* results computed from the bytes uploaded for document n
    blobs,           \* keys present in object storage
    index,           \* vector index: number of entries stored under each id
    tempFile,        \* temp files of the async route: path -> document whose
                     \* bytes it holds (0: no file)
    pc,              \* position of the pipeline that processes the document
    retries,         \* self.request.retries of the document's task
    executions,      \* history: how many times the task body was entered
    startData,       \* history: docData when the running attempt began
    wrote,           \* history: the storage keys written for the document
    raised,          \* the exception the task body raised last ("none": none)
    last,            \* history: the run-level review operation that made the
                     \* last step, its run and the statuses the documents of
                     \* the run had before it (Other for any other step)
    processedFiles,  \* Trigger.processed_files as persisted
    scanPc,          \* position of each execution of scan_folder_triggers
    scanProcessed,   \* its local set `processed`
    scanNew,         \* its local list `new_files`, the part not yet handled
    scanDoc,         \* the document its _process_file has created (0: none)
    scanFailed,      \* history: the files whose _process_file raised
    folder,          \* the files present in the trigger's folder
    extraction,      \* a call of LLMService.extract_fields: arguments and result
    extracted_fields, \* ProcessedDocument.extracted_fields of every document
    first_extraction, \* the records a document's extraction stored (history)
    located,         \* a call of LLMService._find_coordinate_for_value
    classified,      \* a call of LLMService.classify_document_type
    parsing          \* a call of LLMService._safe_parse_json

vars == <<ocrInitialized, runStatus, docStatus, docRun, docName, docKey, docData,
          blobs, index, tempFile, pc, retries, executions, startData, wrote,
          raised, last, processedFiles, scanPc, scanProcessed, scanNew, scanDoc,
          scanFailed, folder, extraction, extracted_fields, first_extraction,
          located, classified, parsing>>

docVars == <<docRun, docName, docKey>>
storeVars == <<blobs, index, wrote>>
taskVars == <<retries, executions, startData, raised>>
scanVars == <<processedFiles, scanPc, scanProcessed, scanNew, scanDoc, scanFailed, folder>>
fieldVars == <<extracted_fields, first_extraction>>
\* the variables outside the upload, task and scanner state
sideVars == <<extraction, fieldVars, located, classified, parsing>>
\* the upload, task and scanner state
programVars == <<ocrInitialized, runStatus, docStatus, docVars, docData, storeVars, tempFile,
                 pc, taskVars, last, scanVars>>

\* ------------------------------------------------------------- helpers
Min(S) == CHOOSE x \in S : \A y \in S : x <= y

DocExists(d) == docRun[d] # 0
RunExists(r) == runStatus[r] # "none"
\* ProcessingRun.documents
DocsOf(r) == {d \in Docs : docRun[d] = r}
FreeDocs == {d \in Docs : ~DocExists(d)}
Created == Cardinality({d \in Docs : DocExists(d)})
FreeRuns == {r \in Runs : ~RunExists(r)}
Other == <<"other", 0, {}>>
\* no call of extract_fields is being followed
NoCall == [state |-> "idle"]

\* the step just taken swallowed a failed index write for document d; an empty
\* raw_text and a failed write both leave the index as it was
IndexFailed(d) == <<"index_failed", d, {}>>
IndexWrite(d, indexed) == IF indexed THEN {Other} ELSE {Other, IndexFailed(d)}
StatusesOf(r) == {docStatus[d] : d \in DocsOf(r)}

\* ------------------------------------------- app/crud/processing_run.py
\* a faulty variant: any() in place of all()
all_reviewed_any(ds, r) == \E d \in DocsOf(r) : ds[d] = REVIEWED

\* all(doc.status == REVIEWED for doc in db_run.documents), evaluated on the
\* statuses ds that mark_document_reviewed has just written
all_reviewed(ds, r) == \A d \in DocsOf(r) : ds[d] = REVIEWED

\* a faulty variant: only documents that went through extraction are touched
ForceDocuments_extracted(r, s) ==
    [d \in Docs |-> IF docRun[d] = r /\ docStatus[d] \in {NEEDS_REVIEW, REVIEWED}
                    THEN s ELSE docStatus[d]]

\* for doc in db_run.documents: doc.status = s
ForceDocuments(r, s) == [d \in Docs |-> IF docRun[d] = r THEN s ELSE docStatus[d]]

mark_run_as_reviewed(r) ==
    /\ RunExists(r)
    /\ runStatus' = [runStatus EXCEPT ![r] = REVIEWED]
    /\ docStatus' = ForceDocuments(r, REVIEWED)
    /\ last' = <<"mark_run_as_reviewed", r, StatusesOf(r)>>
    /\ UNCHANGED <<ocrInitialized, docVars, docData, storeVars, tempFile, pc,
                   taskVars, scanVars,
                   sideVars>>

cancel_run_review(r) ==
    /\ RunExists(r)
    /\ runStatus' = [runStatus EXCEPT ![r] = NEEDS_REVIEW]
    /\ docStatus' = ForceDocuments(r, NEEDS_REVIEW)
    /\ last' = <<"cancel_run_review", r, StatusesOf(r)>>
    /\ UNCHANGED <<ocrInitialized, docVars, docData, storeVars, tempFile, pc,
                   taskVars, scanVars,
                   sideVars>>

cancel_document_review(d) ==
    /\ DocExists(d)
    /\ docStatus' = [docStatus EXCEPT ![d] = NEEDS_REVIEW]
    /\ runStatus' = [runStatus EXCEPT ![docRun[d]] = NEEDS_REVIEW]
    /\ last' = Other
    /\ UNCHANGED <<ocrInitialized, docVars, docData, storeVars, tempFile, pc,
                   taskVars, scanVars,
                   sideVars>>

mark_document_reviewed(d) ==
    /\ DocExists(d)
    /\ LET ds == [docStatus EXCEPT ![d] = REVIEWED] IN
        /\ docStatus' = ds
        /\ runStatus' = IF all_reviewed(ds, docRun[d])
                        THEN [runStatus EXCEPT ![docRun[d]] = REVIEWED]
                        ELSE runStatus
    /\ last' = Other
    /\ UNCHANGED <<ocrInitialized, docVars, docData, storeVars, tempFile, pc,
                   taskVars, scanVars,
                   sideVars>>

\* PATCH /processing-runs/{run_id}/status
update_processing_run_status(r, s) ==
    /\ RunExists(r)
    /\ runStatus' = [runStatus EXCEPT ![r] = s]
    /\ last' = Other
    /\ UNCHANGED <<ocrInitialized, docStatus, docVars, docData, storeVars, tempFile,
                   pc, taskVars, scanVars,
                   sideVars>>

\* PATCH /processing-runs/documents/{document_id}/status
update_document_status(d, s) ==
    /\ DocExists(d)
    /\ docStatus' = [docStatus EXCEPT ![d] = s]
    /\ last' = Other
    /\ UNCHANGED <<ocrInitialized, runStatus, docVars, docData, storeVars, tempFile,
                   pc, taskVars, scanVars,
                   sideVars>>

\* POST /processing-runs/{document_type_id}: a run with no document yet
create_processing_run ==
    /\ FreeRuns # {}
    /\ runStatus' = [runStatus EXCEPT ![Min(FreeRuns)] = PROCESSING]
    /\ last' = Other
    /\ UNCHANGED <<ocrInitialized, docStatus, docVars, docData, storeVars, tempFile,
                   pc, taskVars, scanVars,
                   sideVars>>

\* --------------------------------------- app/services/storage_service.py
\* find_available_key: the first of name, name_1, name_2, ... not in storage
find_available_key(r, n) ==
    <<"file", r, n, Min({c \in 0..MaxDocs : <<"file", r, n, c>> \notin blobs})>>

\* build_key(storage_prefix, f"{original_stem}_preview.png"): the prefix is that
\* of document.file_path, i.e. of the run the document was created in
PreviewKey(d) == <<"preview", docRun[d], docName[d], 0>>

\* is_pdf(filename) or is_word(filename): result["pageImages"] is not empty.
HasPageImages(n) == n \in {"a.pdf", "f.pdf"}

\* vectorstore.add_documents([doc], ids=[str(document_id)]) of
\* langchain_community's PGVector: a row is inserted with the id as its
\* custom id, rows already stored under that id are kept (which is why
\* update_document deletes by id before it adds)
add_document(ix, d) == [ix EXCEPT ![d] = @ + 1]

\* create_processed_document after the storage write of the upload: what an
\* upload route (or _process_file) leaves for a new document d of run r
NewDocument(d, r, n, where) ==
    LET key == find_available_key(r, n) IN
    /\ docRun' = [docRun EXCEPT ![d] = r]
    /\ docName' = [docName EXCEPT ![d] = n]
    /\ docKey' = [docKey EXCEPT ![d] = key]
    /\ docStatus' = [docStatus EXCEPT ![d] = PROCESSING]
    /\ blobs' = blobs \cup {key}
    /\ wrote' = [wrote EXCEPT ![d] = {key}]
    /\ pc' = [pc EXCEPT ![d] = where]

\* ------------------------------- app/api/routes/extraction.py (async route)
\* extract_and_save_async with processing_run_id = r (0: none given, a run is
\* created): temp file written, blob stored, document created, task submitted
extract_and_save_async(r, n) ==
    /\ FreeDocs # {}
    /\ IF r = 0 THEN FreeRuns # {} ELSE RunExists(r)
    /\ LET d == Min(FreeDocs)
           run == IF r = 0 THEN Min(FreeRuns) ELSE r IN
        /\ tempFile' = [tempFile EXCEPT ![n] = d]
        /\ runStatus' = IF r = 0 THEN [runStatus EXCEPT ![run] = PROCESSING]
                        ELSE runStatus
        /\ NewDocument(d, run, n, "queued")
    /\ last' = Other
    /\ UNCHANGED <<ocrInitialized, docData, index, taskVars, scanVars,
                   sideVars>>

\* ---------------------------- app/tasks/document_tasks.py, one attempt
\* a faulty variant: <= in place of <
CanRetry_inclusive(n) == n <= max_retries

\* if self.request.retries < self.max_retries: raise self.retry(...)
CanRetry(n) == n < max_retries

\* task bodies the worker is executing: process_document_task and
\* scan_folder_triggers_task share its pool
Executing == Cardinality({d \in Docs : pc[d] \in {"started", "written", "except", "except2"}})
             + Cardinality({s \in Scanners : scanPc[s] # "idle"})
WorkerFree == Executing < concurrency

\* lines 34-45: the body is entered, the document is set to processing
task_begin(d) ==
    /\ pc[d] = "queued"
    /\ WorkerFree
    /\ executions' = [executions EXCEPT ![d] = @ + 1]
    /\ startData' = [startData EXCEPT ![d] = docData[d]]
    /\ docStatus' = [docStatus EXCEPT ![d] = PROCESSING]
    /\ pc' = [pc EXCEPT ![d] = "started"]
    /\ last' = Other
    /\ UNCHANGED <<ocrInitialized, runStatus, docVars, docData, storeVars, tempFile,
                   retries, raised, scanVars,
                   sideVars>>

\* lines 47-50: OCR engine not initialized; document and run set to error, raise
task_not_initialized(d) ==
    /\ pc[d] = "started"
    /\ ~ocrInitialized
    /\ docStatus' = [docStatus EXCEPT ![d] = ERROR]
    /\ runStatus' = [runStatus EXCEPT ![docRun[d]] = ERROR]
    /\ raised' = [raised EXCEPT ![d] = "RuntimeError"]
    /\ pc' = [pc EXCEPT ![d] = "except"]
    /\ last' = Other
    /\ UNCHANGED <<ocrInitialized, docVars, docData, storeVars, tempFile, retries,
                   executions, startData, scanVars,
                   sideVars>>

\* lines 52-72: extract_document (OCR, LLM) or the preview write raises; with no
\* file at temp_filepath this is the only outcome
task_extract_fails(d) ==
    /\ pc[d] = "started"
    /\ ocrInitialized
    /\ raised' = [raised EXCEPT ![d] = "Exception"]
    /\ pc' = [pc EXCEPT ![d] = "except"]
    /\ last' = Other
    /\ UNCHANGED <<ocrInitialized, runStatus, docStatus, docVars, docData, storeVars,
                   tempFile, retries, executions, startData, scanVars,
                   sideVars>>

\* lines 52-101: OCR of the file at temp_filepath, preview stored, results and
\* needs_review written by update_document_extraction_results
task_save_results(d) ==
    /\ pc[d] = "started"
    /\ ocrInitialized
    /\ tempFile[docName[d]] # 0
    /\ IF HasPageImages(docName[d])
       THEN /\ blobs' = blobs \cup {PreviewKey(d)}
            /\ wrote' = [wrote EXCEPT ![d] = @ \cup {PreviewKey(d)}]
       ELSE UNCHANGED <<blobs, wrote>>
    /\ docData' = [docData EXCEPT ![d] = tempFile[docName[d]]]
    /\ docStatus' = [docStatus EXCEPT ![d] = NEEDS_REVIEW]
    /\ pc' = [pc EXCEPT ![d] = "written"]
    /\ last' = Other
    /\ UNCHANGED <<ocrInitialized, runStatus, docVars, index, tempFile, taskVars,
                   scanVars,
                   sideVars>>

\* finally (lines 142-148): os.remove(temp_filepath) if it exists
RemoveTempFile(d) == [tempFile EXCEPT ![docName[d]] = 0]

\* the task with an index write whose failure is not caught
task_finish_index_fatal(d, indexed) ==
    /\ pc[d] = "written"
    /\ \E l \in IndexWrite(d, indexed) :
        /\ last' = l
        /\ IF l = Other
           THEN /\ index' = IF indexed THEN add_document(index, d) ELSE index
                /\ runStatus' = [runStatus EXCEPT ![docRun[d]] = NEEDS_REVIEW]
                /\ tempFile' = RemoveTempFile(d)
                /\ raised' = [raised EXCEPT ![d] = "none"]
                /\ pc' = [pc EXCEPT ![d] = "done"]
           ELSE /\ raised' = [raised EXCEPT ![d] = "Exception"]
                /\ pc' = [pc EXCEPT ![d] = "except"]
                /\ UNCHANGED <<index, runStatus, tempFile>>
    /\ UNCHANGED <<ocrInitialized, docStatus, docVars, docData, blobs, wrote, retries,
                   executions, startData, scanVars,
                   sideVars>>

\* lines 103-129 and the finally: the index write (indexed = FALSE: raw_text is
\* empty, or the write raised and was swallowed), then the run is set to
\* needs_review and the task returns
task_finish(d, indexed) ==
    /\ pc[d] = "written"
    /\ index' = IF indexed THEN add_document(index, d) ELSE index
    /\ runStatus' = [runStatus EXCEPT ![docRun[d]] = NEEDS_REVIEW]
    /\ tempFile' = RemoveTempFile(d)
    /\ raised' = [raised EXCEPT ![d] = "none"]
    /\ pc' = [pc EXCEPT ![d] = "done"]
    /\ last' \in IndexWrite(d, indexed)
    /\ UNCHANGED <<ocrInitialized, docStatus, docVars, docData, blobs, wrote, retries,
                   executions, startData, scanVars,
                   sideVars>>

\* line 123 raises (a database error, or SoftTimeLimitExceeded of
\* task_soft_time_limit) after the results were committed
task_fails_late(d, indexed) ==
    /\ pc[d] = "written"
    /\ index' = IF indexed THEN add_document(index, d) ELSE index
    /\ raised' = [raised EXCEPT ![d] = "Exception"]
    /\ pc' = [pc EXCEPT ![d] = "except"]
    /\ last' = Other
    /\ UNCHANGED <<ocrInitialized, runStatus, docStatus, docVars, docData, blobs,
                   wrote, tempFile, retries, executions, startData, scanVars,
                   sideVars>>

\* line 133: except Exception: update_document_status(ERROR)
task_handler_document(d) ==
    /\ pc[d] = "except"
    /\ docStatus' = [docStatus EXCEPT ![d] = ERROR]
    /\ pc' = [pc EXCEPT ![d] = "except2"]
    /\ last' = Other
    /\ UNCHANGED <<ocrInitialized, runStatus, docVars, docData, storeVars, tempFile,
                   taskVars, scanVars,
                   sideVars>>

\* lines 138-148: self.retry (Retry is raised, the task is queued again with
\* retries + 1) or the exception is re-raised; then the finally block
RetryOrRaise(d) ==
    /\ IF CanRetry(retries[d])
       THEN /\ retries' = [retries EXCEPT ![d] = @ + 1]
            /\ raised' = [raised EXCEPT ![d] = "Retry"]
            /\ pc' = [pc EXCEPT ![d] = "queued"]
       ELSE /\ UNCHANGED <<retries, raised>>
            /\ pc' = [pc EXCEPT ![d] = "failed"]
    /\ tempFile' = RemoveTempFile(d)

\* line 134: update_processing_run_status(ERROR), then lines 138-148
task_handler_run(d) ==
    /\ pc[d] = "except2"
    /\ runStatus' = [runStatus EXCEPT ![docRun[d]] = ERROR]
    /\ RetryOrRaise(d)
    /\ last' = Other
    /\ UNCHANGED <<ocrInitialized, docStatus, docVars, docData, storeVars,
                   executions, startData, scanVars,
                   sideVars>>

\* lines 132-136: the first or the second status write of the handler raises
\* (the database is unreachable, or the session is unusable after the failed
\* commit that brought the task here); "except Exception: pass" swallows it
task_handler_fails(d) ==
    /\ pc[d] \in {"except", "except2"}
    /\ RetryOrRaise(d)
    /\ last' = Other
    /\ UNCHANGED <<ocrInitialized, runStatus, docStatus, docVars, docData, storeVars,
                   executions, startData, scanVars,
                   sideVars>>

\* ------------------ app/api/routes/extraction.py, extract_and_save (sync)
\* lines 160-201: blob stored, document created in processing
extract_and_save(r, n) ==
    /\ FreeDocs # {}
    /\ IF r = 0 THEN FreeRuns # {} ELSE RunExists(r)
    /\ LET d == Min(FreeDocs)
           run == IF r = 0 THEN Min(FreeRuns) ELSE r IN
        /\ runStatus' = IF r = 0 THEN [runStatus EXCEPT ![run] = PROCESSING]
                        ELSE runStatus
        /\ NewDocument(d, run, n, "sync_created")
    /\ last' = Other
    /\ UNCHANGED <<ocrInitialized, docData, index, tempFile, taskVars, scanVars,
                   sideVars>>

\* lines 203-206: OCR engine not initialized; run and document set to error,
\* HTTP 500
sync_not_initialized(d) ==
    /\ pc[d] = "sync_created"
    /\ ~ocrInitialized
    /\ runStatus' = [runStatus EXCEPT ![docRun[d]] = ERROR]
    /\ docStatus' = [docStatus EXCEPT ![d] = ERROR]
    /\ pc' = [pc EXCEPT ![d] = "failed"]
    /\ last' = Other
    /\ UNCHANGED <<ocrInitialized, docVars, docData, storeVars, tempFile, taskVars,
                   scanVars,
                   sideVars>>

\* lines 208-242: OCR, preview stored, results and needs_review written
sync_save_results(d) ==
    /\ pc[d] = "sync_created"
    /\ ocrInitialized
    /\ IF HasPageImages(docName[d])
       THEN /\ blobs' = blobs \cup {PreviewKey(d)}
            /\ wrote' = [wrote EXCEPT ![d] = @ \cup {PreviewKey(d)}]
       ELSE UNCHANGED <<blobs, wrote>>
    /\ docData' = [docData EXCEPT ![d] = d]
    /\ docStatus' = [docStatus EXCEPT ![d] = NEEDS_REVIEW]
    /\ pc' = [pc EXCEPT ![d] = "sync_written"]
    /\ last' = Other
    /\ UNCHANGED <<ocrInitialized, runStatus, docVars, index, tempFile, taskVars,
                   scanVars,
                   sideVars>>

\* an exception in lines 208-264 (extract_document, the preview write, a
\* database error): the finally blocks clean up, lines 286-289 answer HTTP 500
sync_fails(d) ==
    /\ \/ pc[d] = "sync_created" /\ ocrInitialized
       \/ pc[d] = "sync_written"
    /\ pc' = [pc EXCEPT ![d] = "failed"]
    /\ last' = Other
    /\ UNCHANGED <<ocrInitialized, runStatus, docStatus, docVars, docData, storeVars,
                   tempFile, taskVars, scanVars,
                   sideVars>>

\* lines 244-274: index write (swallowed when it fails), run set to needs_review
sync_finish(d, indexed) ==
    /\ pc[d] = "sync_written"
    /\ index' = IF indexed THEN add_document(index, d) ELSE index
    /\ runStatus' = [runStatus EXCEPT ![docRun[d]] = NEEDS_REVIEW]
    /\ pc' = [pc EXCEPT ![d] = "done"]
    /\ last' \in IndexWrite(d, indexed)
    /\ UNCHANGED <<ocrInitialized, docStatus, docVars, docData, blobs, wrote,
                   tempFile, taskVars, scanVars,
                   sideVars>>

\* --------------------------- app/services/folder_trigger_service.py
\* Trigger.processed_files is the JSONB column of alembic revision 016
\* (server default []); scan_folder_triggers reads and writes it as an
\* attribute of the Trigger row.  One enabled trigger with an existing folder
\* is modelled.  Celery beat submits scan_folder_triggers every 30 s whether or
\* not the previous execution has returned, so up to `concurrency` executions
\* run at a time, one per scanner slot s.

\* the orders in which os.scandir may list the files of S
RECURSIVE Orders(_)
Orders(S) ==
    IF S = {} THEN {<<>>}
    ELSE UNION {{<<f>> \o q : q \in Orders(S \ {f})} : f \in S}

\* a file is dropped into the watched folder
file_arrives(f) ==
    /\ f \notin folder
    /\ folder' = folder \cup {f}
    /\ last' = Other
    /\ UNCHANGED <<ocrInitialized, runStatus, docStatus, docVars, docData, storeVars,
                   tempFile, pc, taskVars, processedFiles, scanPc, scanProcessed,
                   scanNew, scanDoc, scanFailed,
                   sideVars>>

\* scan_folder_triggers lines 219-250: the trigger is loaded, its set is copied
\* into `processed` and the files of the folder not in it become `new_files`
\* (with no new file the trigger is skipped and nothing is written)
scan_begin(s) ==
    /\ scanPc[s] = "idle"
    /\ WorkerFree
    /\ folder \ processedFiles # {}
    /\ scanProcessed' = [scanProcessed EXCEPT ![s] = processedFiles]
    /\ \E q \in Orders(folder \ processedFiles) :
           scanNew' = [scanNew EXCEPT ![s] = q]
    /\ scanPc' = [scanPc EXCEPT ![s] = "batch"]
    /\ last' = Other
    /\ UNCHANGED <<ocrInitialized, runStatus, docStatus, docVars, docData, storeVars,
                   tempFile, pc, taskVars, processedFiles, scanDoc, scanFailed, folder,
                   sideVars>>

\* the file at the head of new_files has been handled: lines 256 / 262
FileHandled(s) ==
    /\ scanProcessed' = [scanProcessed EXCEPT ![s] = @ \cup {Head(scanNew[s])}]
    /\ scanNew' = [scanNew EXCEPT ![s] = Tail(@)]

\* _process_file on the next file creates nothing: lines 84-106 return early
\* (OCR not initialized, no text, no document type), or extract_document
\* raises (raises = TRUE) and lines 257-262 log it
scan_skip_file(s, raises) ==
    /\ scanPc[s] = "batch"
    /\ scanNew[s] # <<>>
    /\ FileHandled(s)
    /\ scanFailed' = IF raises THEN scanFailed \cup {Head(scanNew[s])} ELSE scanFailed
    /\ last' = Other
    /\ UNCHANGED <<ocrInitialized, runStatus, docStatus, docVars, docData, storeVars,
                   tempFile, pc, taskVars, processedFiles, scanPc, scanDoc, folder,
                   sideVars>>

\* _process_file lines 108-142 on the next file: run created, file and preview
\* stored, document created in processing
scan_create_document(s) ==
    /\ scanPc[s] = "batch"
    /\ scanNew[s] # <<>>
    /\ ocrInitialized
    /\ FreeDocs # {}
    /\ FreeRuns # {}
    /\ LET d == Min(FreeDocs)
           run == Min(FreeRuns)
           n == Head(scanNew[s])
           key == find_available_key(run, n)
           preview == IF HasPageImages(n) THEN {<<"preview", run, n, 0>>} ELSE {} IN
        /\ runStatus' = [runStatus EXCEPT ![run] = PROCESSING]
        /\ docRun' = [docRun EXCEPT ![d] = run]
        /\ docName' = [docName EXCEPT ![d] = n]
        /\ docKey' = [docKey EXCEPT ![d] = key]
        /\ docStatus' = [docStatus EXCEPT ![d] = PROCESSING]
        /\ blobs' = blobs \cup {key} \cup preview
        /\ wrote' = [wrote EXCEPT ![d] = {key} \cup preview]
        /\ pc' = [pc EXCEPT ![d] = "scan_created"]
        /\ scanDoc' = [scanDoc EXCEPT ![s] = d]
    /\ scanPc' = [scanPc EXCEPT ![s] = "file"]
    /\ last' = Other
    /\ UNCHANGED <<ocrInitialized, docData, index, tempFile, taskVars,
                   processedFiles, scanProcessed, scanNew, scanFailed, folder,
                   sideVars>>

\* _process_file lines 144-183: results and needs_review written
scan_save_results(s) ==
    /\ scanPc[s] = "file"
    /\ pc[scanDoc[s]] = "scan_created"
    /\ LET d == scanDoc[s] IN
        /\ docData' = [docData EXCEPT ![d] = d]
        /\ docStatus' = [docStatus EXCEPT ![d] = NEEDS_REVIEW]
        /\ pc' = [pc EXCEPT ![d] = "scan_written"]
    /\ last' = Other
    /\ UNCHANGED <<ocrInitialized, runStatus, docVars, storeVars, tempFile, taskVars,
                   scanVars,
                   sideVars>>

\* an exception in _process_file lines 144-205, after the document was created
\* (the field extraction of line 148, a database error);
\* scan_folder_triggers lines 257-262 log it and mark the file processed
scan_file_fails(s) ==
    /\ scanPc[s] = "file"
    /\ pc' = [pc EXCEPT ![scanDoc[s]] = "failed"]
    /\ FileHandled(s)
    /\ scanFailed' = scanFailed \cup {Head(scanNew[s])}
    /\ scanPc' = [scanPc EXCEPT ![s] = "batch"]
    /\ scanDoc' = [scanDoc EXCEPT ![s] = 0]
    /\ last' = Other
    /\ UNCHANGED <<ocrInitialized, runStatus, docStatus, docVars, docData, storeVars,
                   tempFile, taskVars, processedFiles, folder,
                   sideVars>>

\* _process_file lines 185-206 and scan_folder_triggers line 256
scan_finish(s, indexed) ==
    /\ scanPc[s] = "file"
    /\ pc[scanDoc[s]] = "scan_written"
    /\ LET d == scanDoc[s] IN
        /\ index' = IF indexed THEN add_document(index, d) ELSE index
        /\ runStatus' = [runStatus EXCEPT ![docRun[d]] = NEEDS_REVIEW]
        /\ pc' = [pc EXCEPT ![d] = "done"]
    /\ FileHandled(s)
    /\ scanPc' = [scanPc EXCEPT ![s] = "batch"]
    /\ scanDoc' = [scanDoc EXCEPT ![s] = 0]
    /\ last' \in IndexWrite(scanDoc[s], indexed)
    /\ UNCHANGED <<ocrInitialized, docStatus, docVars, docData, blobs, wrote,
                   tempFile, taskVars, processedFiles, scanFailed, folder,
                   sideVars>>

\* scan_folder_triggers lines 264-266: trigger.processed_files = list(processed)
\* and the commit, once every file of new_files has been handled
scan_persist(s) ==
    /\ scanPc[s] = "batch"
    /\ scanNew[s] = <<>>
    /\ processedFiles' = scanProcessed[s]
    /\ scanPc' = [scanPc EXCEPT ![s] = "idle"]
    /\ last' = Other
    /\ UNCHANGED <<ocrInitialized, runStatus, docStatus, docVars, docData, storeVars,
                   tempFile, pc, taskVars, scanProcessed, scanNew, scanDoc, scanFailed,
                   folder,
                   sideVars>>

\* the execution ends before line 266 has committed: the worker process is
\* killed at task_time_limit, or the commit raises and lines 268-273 log
\* "Scan failed"; `processed` is lost, a document being processed stays as it is
scan_crash(s) ==
    /\ scanPc[s] # "idle"
    /\ scanPc' = [scanPc EXCEPT ![s] = "idle"]
    /\ scanNew' = [scanNew EXCEPT ![s] = <<>>]
    /\ scanProcessed' = [scanProcessed EXCEPT ![s] = {}]
    /\ scanDoc' = [scanDoc EXCEPT ![s] = 0]
    /\ pc' = IF scanPc[s] = "file" THEN [pc EXCEPT ![scanDoc[s]] = "failed"] ELSE pc
    /\ last' = Other
    /\ UNCHANGED <<ocrInitialized, runStatus, docStatus, docVars, docData, storeVars,
                   tempFile, taskVars, processedFiles, scanFailed, folder,
                   sideVars>>

\* ------------------------------------------------ text and dictionaries
\* A string is the sequence of its characters; None and "" are both <<>>
\* (every test the code makes on them is a truth test or `in (None, "")`).
\* A Python dict is the sequence of its <<key, value>> pairs in insertion
\* order.  A confidence is written in hundredths.

LowerChar(c) == CASE c = "A" -> "a" [] c = "G" -> "g" [] c = "H" -> "h" [] OTHER -> c

\* str.lower()
lower(s) == [i \in 1..Len(s) |-> LowerChar(s[i])]

\* str.strip()
RECURSIVE strip(_)
strip(s) ==
    IF s = <<>> THEN s
    ELSE IF Head(s) = " " THEN strip(Tail(s))
    ELSE IF s[Len(s)] = " " THEN strip(SubSeq(s, 1, Len(s) - 1))
    ELSE s

\* a in b
Contains(a, b) == \E i \in 1..(Len(b) - Len(a) + 1) : SubSeq(b, i, i + Len(a) - 1) = a

Max(S) == CHOOSE x \in S : \A y \in S : y <= x

DictKeys(d) == {d[i][1] : i \in 1..Len(d)}

\* d.get(k, default)
DictGet(d, k, default) ==
    IF k \in DictKeys(d) THEN d[CHOOSE i \in 1..Len(d) : d[i][1] = k][2] ELSE default

\* d[k] = v
DictSet(d, k, v) ==
    IF k \in DictKeys(d)
    THEN [i \in 1..Len(d) |-> IF d[i][1] = k THEN <<k, v>> ELSE d[i]]
    ELSE Append(d, <<k, v>>)

\* every sequence over S of length at most n
SeqsUpTo(S, n) == UNION {[1..k -> S] : k \in 0..n}

\* the placeholder values of lines 556, 623, 634 and of line 391, as one
\* character each
NOT_FOUND == <<"(not found)">>
EXTRACTION_ERROR == <<"(extraction error)">>

\* ------------------------------------------- app/services/ocr_service.py
\* A raw field of a document type is a scalar name, or "table:<group>::<name>"
\* written [table |-> TRUE, group |-> .., name |-> ..].

\* _parse_field_specs: the scalar names, without repetition
RECURSIVE single_fields(_, _)
single_fields(raw, acc) ==
    IF raw = <<>> THEN acc
    ELSE LET f == Head(raw)
             name == strip(f.name) IN
         single_fields(Tail(raw),
             IF f.table \/ f.name = <<>> \/ \E i \in 1..Len(acc) : acc[i] = name
             THEN acc ELSE Append(acc, name))

\* _parse_field_specs: the dict group -> columns, a column once per group
RECURSIVE table_groups(_, _)
table_groups(raw, acc) ==
    IF raw = <<>> THEN acc
    ELSE LET f == Head(raw)
             group == strip(f.group)
             name == strip(f.name)
             columns == DictGet(acc, group, <<>>) IN
         table_groups(Tail(raw),
             IF ~f.table \/ group = <<>> \/ name = <<>> THEN acc
             ELSE IF \E i \in 1..Len(columns) : columns[i] = name
                  THEN DictSet(acc, group, columns)
                  ELSE DictSet(acc, group, Append(columns, name)))

\* ------------------------------------------- app/services/llm_service.py
\* The text of an engine response is written by its syntax:
\*   form "empty"           the empty string
\*        "text"            text without JSON
\*        "json"            the JSON text of `value`
\*        "trailing_comma"  the same with a comma before a closing bracket
\*        "literal"         `value` as a Python literal (single quotes)
\*        "truncated"       JSON text cut before its last closing brace
\*        "prose_json"      the JSON text of `value` with prose before and after it
\*        "json_after_fence"  a fenced block without JSON, then the JSON text of
\*                          `value`
\*   fenced                 the text stands between ``` fences
\*   value                  [object |-> TRUE, fields, tables] for a JSON object,
\*                          object = FALSE for a JSON array
\* An entry of "fields" is [name, values, confidence] (a scalar "value" is the
\* one-element list of line 597, a missing confidence is 80); a table is
\* [group, rows] and a row [is_dict, keys, cells].

\* _extract_json_object finds a balanced {...}
extract_json_object(response) ==
    /\ response.form \in {"json", "trailing_comma", "literal", "prose_json", "json_after_fence"}
    /\ response.value.object

\* line 641: the response holds a ``` fence
fenced_match(response) == response.fenced \/ response.form = "json_after_fence"

\* line 642: the syntax of the candidate, which is the content of the fence
\* when there is one and else the balanced object
candidate(response) ==
    IF response.form = "json_after_fence" THEN "text"
    ELSE IF response.fenced THEN response.form
    ELSE IF response.form = "prose_json" THEN "json"
    ELSE response.form

\* _safe_parse_json: <<>> for None, else <<the parsed value>>
safe_parse_json(response) ==
    IF response.form = "empty" THEN <<>>
    ELSE IF ~(fenced_match(response) \/ extract_json_object(response)) THEN <<>>
    ELSE IF candidate(response) \in {"json", "trailing_comma"} THEN <<response.value>>
    ELSE IF candidate(response) = "literal" /\ response.value.object THEN <<response.value>>
    ELSE <<>>

\* str.split()
RECURSIVE split(_, _, _)
split(s, word, acc) ==
    IF s = <<>> THEN (IF word = <<>> THEN acc ELSE Append(acc, word))
    ELSE IF Head(s) = " "
         THEN split(Tail(s), <<>>, IF word = <<>> THEN acc ELSE Append(acc, word))
         ELSE split(Tail(s), Append(word, Head(s)), acc)

\* the locator without the preference of containment over word overlap
find_coordinate_for_value_by_overlap(value, json_content) ==
    LET value_lower == strip(lower(value))
        value_words == split(value_lower, <<>>, <<>>)
        Content(i) == lower(json_content[i].block_content)
        Boxed(i) == Content(i) # <<>> /\ Len(json_content[i].block_bbox) = 4
        matching_words(i) ==
            Cardinality({w \in 1..Len(value_words) : Contains(value_words[w], Content(i))})
        found == {i \in 1..Len(json_content) :
                     /\ Boxed(i)
                     /\ \/ Contains(value_lower, Content(i))
                        \/ /\ Len(value_words) >= 2
                           /\ 2 * matching_words(i) >= Len(value_words)} IN
    IF found # {} THEN json_content[Min(found)].block_bbox ELSE <<>>

\* _find_coordinate_for_value; json_content is its parsing_res_list, <<>> is None
find_coordinate_for_value(value, json_content) ==
    LET value_lower == strip(lower(value))
        value_words == split(value_lower, <<>>, <<>>)
        Content(i) == lower(json_content[i].block_content)
        Boxed(i) == Content(i) # <<>> /\ Len(json_content[i].block_bbox) = 4
        matching_words(i) ==
            Cardinality({w \in 1..Len(value_words) : Contains(value_words[w], Content(i))})
        exact == {i \in 1..Len(json_content) : Boxed(i) /\ Contains(value_lower, Content(i))}
        fuzzy == {i \in 1..Len(json_content) :
                     Boxed(i) /\ 2 * matching_words(i) >= Len(value_words)} IN
    IF exact # {} THEN json_content[Min(exact)].block_bbox
    ELSE IF Len(value_words) >= 2 /\ fuzzy # {} THEN json_content[Min(fuzzy)].block_bbox
    ELSE <<>>

\* lines 567-573 and 608-614
Coordinate(value, json_content) ==
    IF json_content # <<>> /\ value # NOT_FOUND
    THEN find_coordinate_for_value(value, json_content)
    ELSE <<>>

\* lines 555-556 and 600
Normalized(value) == IF value = <<>> THEN NOT_FOUND ELSE value

\* lines 484-487: lower-cased group name -> (group, columns)
RECURSIVE group_lookup(_, _)
group_lookup(groups, acc) ==
    IF groups = <<>> THEN acc
    ELSE group_lookup(Tail(groups),
                      DictSet(acc, strip(lower(Head(groups)[1])), Head(groups)))

\* lines 494-518: <<(group, columns)>> of the configured group a table is
\* matched to, <<>> when the table is skipped
MatchGroup(lookup, group_name) ==
    IF group_name = <<>>
    THEN IF Len(lookup) = 1 THEN <<lookup[1][2]>> ELSE <<>>
    ELSE LET group_key == strip(lower(group_name))
             partial == {i \in 1..Len(lookup) :
                            \/ Contains(group_key, lookup[i][1])
                            \/ Contains(lookup[i][1], group_key)} IN
         IF group_key \in DictKeys(lookup) THEN <<DictGet(lookup, group_key, <<>>)>>
         ELSE IF Len(lookup) = 1 THEN <<lookup[1][2]>>
         ELSE IF partial # {} THEN <<lookup[Min(partial)][2]>>
         ELSE <<>>

\* lines 528-535
row_values(row, columns) ==
    IF row.is_dict
    THEN [i \in 1..Len(row.keys) |-> <<row.keys[i], row.cells[i]>>]
    ELSE [i \in 1..Min({Len(columns), Len(row.cells)}) |-> <<columns[i], row.cells[i]>>]

\* lines 539-549: the cell of a column, None when the row has none
CellOf(values, column) ==
    LET column_key == strip(lower(column))
        named == {i \in 1..Len(values) : strip(lower(values[i][1])) = column_key}
        row_key == IF named = {} THEN column ELSE values[Max(named)][1] IN
    DictGet(values, row_key, <<>>)

\* lines 546-575: one record per configured column of the matched group
RowRecords(row, row_index, matched, json_content) ==
    LET columns == matched[2] IN
    IF ~row.is_dict /\ columns = <<>> THEN <<>>
    ELSE [j \in 1..Len(columns) |->
            LET value == Normalized(CellOf(row_values(row, columns), columns[j])) IN
            [name |-> columns[j], value |-> value, confidence |-> 80,
             coordinate |-> Coordinate(value, json_content),
             group |-> matched[1], row_index |-> row_index]]

\* line 527: enumerate(rows)
RECURSIVE RowsRecords(_, _, _, _)
RowsRecords(rows, row_index, matched, json_content) ==
    IF rows = <<>> THEN <<>>
    ELSE RowRecords(Head(rows), row_index, matched, json_content)
         \o RowsRecords(Tail(rows), row_index + 1, matched, json_content)

\* lines 489-575
RECURSIVE TablesRecords(_, _, _)
TablesRecords(tables, lookup, json_content) ==
    IF tables = <<>> THEN <<>>
    ELSE LET matched == MatchGroup(lookup, Head(tables).group) IN
         (IF matched = <<>> THEN <<>>
          ELSE RowsRecords(Head(tables).rows, 0, matched[1], json_content))
         \o TablesRecords(Tail(tables), lookup, json_content)

\* line 577: the keys of requested_map
Requested(fields, key) == {i \in 1..Len(fields) : strip(lower(fields[i])) = key}

\* lines 581-616: the records of one entry of "fields"
EntryRecords(entry, fields, json_content) ==
    LET key == strip(lower(entry.name)) IN
    IF entry.name = <<>> \/ Requested(fields, key) = {} THEN <<>>
    ELSE [k \in 1..Len(entry.values) |->
            LET value == Normalized(entry.values[k]) IN
            [name |-> fields[Max(Requested(fields, key))], value |-> value,
             confidence |-> entry.confidence,
             coordinate |-> Coordinate(value, json_content)]]

RECURSIVE FieldsRecords(_, _, _)
FieldsRecords(entries, fields, json_content) ==
    IF entries = <<>> THEN <<>>
    ELSE EntryRecords(Head(entries), fields, json_content)
         \o FieldsRecords(Tail(entries), fields, json_content)

Placeholder(field_name) ==
    [name |-> field_name, value |-> NOT_FOUND, confidence |-> 0, coordinate |-> <<>>]

\* lines 619-626: a placeholder for every requested field that was not seen
RECURSIVE NotSeen(_, _)
NotSeen(fields, seen) ==
    IF fields = <<>> THEN <<>>
    ELSE (IF Head(fields) \in seen THEN <<>> ELSE <<Placeholder(Head(fields))>>)
         \o NotSeen(Tail(fields), seen)

\* _parse_extracted_fields; raised: data.get on a parsed value that is not a
\* dict raises AttributeError, which line 630 does not catch
parse_extracted_fields(response, fields, json_content, groups) ==
    LET data == safe_parse_json(response) IN
    IF data = <<>>
    THEN [raised |-> FALSE, result |-> [i \in 1..Len(fields) |-> Placeholder(fields[i])]]
    ELSE IF ~data[1].object THEN [raised |-> TRUE, result |-> <<>>]
    ELSE LET scalars == FieldsRecords(data[1].fields, fields, json_content)
             seen == {scalars[i].name : i \in 1..Len(scalars)} IN
         [raised |-> FALSE,
          result |-> TablesRecords(data[1].tables, group_lookup(groups, <<>>),
                                   json_content)
                     \o scalars \o NotSeen(fields, seen)]

\* LLMService.extract_fields
extract_fields(call) ==
    LET parsed == parse_extracted_fields(call.response, call.fields_to_extract,
                                         call.json_content, call.table_groups) IN
    IF ~call.is_configured \/ (call.fields_to_extract = <<>> /\ call.table_groups = <<>>)
    THEN <<>>
    ELSE IF call.generate_raises \/ parsed.raised
    THEN [i \in 1..Len(call.fields_to_extract) |->
            [name |-> call.fields_to_extract[i], value |-> EXTRACTION_ERROR,
             confidence |-> 0, coordinate |-> <<>>]]
    ELSE parsed.result

\* a table record carries its group and row_index (lines 558-565)
IsTableRecord(r) == "group" \in DOMAIN r

\* the records of kind scalar / table in a sequence of records
ScalarRecords(result) == {k \in 1..Len(result) : ~IsTableRecord(result[k])}
TableRecords(result) == {k \in 1..Len(result) : IsTableRecord(result[k])}

\* extract_document lines 380-391 call extract_fields_with_llm, which runs
\* LLMService.extract_fields to its end: the call returns
\* (`parsed` keeps what _parse_extracted_fields did, when line 376 was reached)
extract_fields_returns ==
    /\ extraction.state = "called"
    /\ extraction' =
         [extraction EXCEPT
            !.state = "returned",
            !.result = extract_fields(extraction),
            !.parsed =
                IF /\ extraction.is_configured
                   /\ ~extraction.generate_raises
                   /\ extraction.fields_to_extract # <<>> \/ extraction.table_groups # <<>>
                THEN <<parse_extracted_fields(extraction.response,
                                              extraction.fields_to_extract,
                                              extraction.json_content,
                                              extraction.table_groups)>>
                ELSE <<>>]
    /\ UNCHANGED <<programVars, fieldVars, located, classified, parsing>>

\* ------------------------------------------------- the calls followed
Scalar(n) == [table |-> FALSE, group |-> <<>>, name |-> n]
Column(g, n) == [table |-> TRUE, group |-> g, name |-> n]

\* the raw fields a document type may list
RawFields ==
    {Scalar(<<"A">>), Scalar(<<"a">>), Scalar(<<"n", " ">>),
     Column(<<"G">>, <<"x">>), Column(<<"G">>, <<"y">>), Column(<<"g">>, <<"x">>),
     Column(<<"H">>, <<"x">>)}

\* the entries of "fields" an engine response may hold
Entries ==
    {[name |-> <<"A">>, values |-> <<<<"v">>>>, confidence |-> 95],
     [name |-> <<" ", "a">>, values |-> <<<<>>>>, confidence |-> 80],
     [name |-> <<"z">>, values |-> <<<<"w">>>>, confidence |-> 80],
     [name |-> <<"n", "o">>, values |-> <<<<"v">>>>, confidence |-> 95],
     [name |-> <<"n">>, values |-> <<<<"v">>, <<"w">>>>, confidence |-> 80]}

DictRow(k, c) == [is_dict |-> TRUE, keys |-> k, cells |-> c]
ListRow(c) == [is_dict |-> FALSE, keys |-> <<>>, cells |-> c]

\* the tables an engine response may hold
Tables ==
    {[group |-> <<"G">>, rows |-> <<DictRow(<<<<"X">>, <<"q">>>>, <<<<"v">>, <<"w">>>>)>>],
     [group |-> <<"Z">>, rows |-> <<ListRow(<<<<"w">>>>)>>],
     [group |-> <<>>, rows |-> <<DictRow(<<<<"y">>>>, <<<<>>>>)>>],
     [group |-> <<"H", "i">>,
      rows |-> <<DictRow(<<<<"x">>>>, <<<<"v">>>>), DictRow(<<<<"x">>>>, <<<<"w">>>>)>>]}

Array == [object |-> FALSE, fields |-> <<>>, tables |-> <<>>]

Values ==
    {Array} \cup {[object |-> TRUE, fields |-> f, tables |-> t] :
                     f \in SeqsUpTo(Entries, MaxEntries), t \in SeqsUpTo(Tables, MaxTables)}

Responses ==
    {[form |-> "empty", fenced |-> FALSE, value |-> Array]}
    \cup {[form |-> f, fenced |-> b, value |-> Array] :
             f \in {"text", "truncated"}, b \in BOOLEAN}
    \cup {[form |-> f, fenced |-> b, value |-> v] :
             f \in {"json", "trailing_comma", "literal"}, b \in BOOLEAN, v \in Values}

\* the OCR blocks: none, or one block holding "v"
JsonContents == {<<>>, <<[block_content |-> <<"A", " ", "v">>, block_bbox |-> <<1, 2, 3, 4>>]>>}

\* a call as extract_document makes it (lines 382-391), for a document type
\* listing the raw fields `raw`; `text` is the OCR text, a sequence of lines
Call(raw, configured, raises, response, json_content, text) ==
    [state |-> "called", is_configured |-> configured, generate_raises |-> raises,
     text |-> text,
     fields_to_extract |-> single_fields(raw, <<>>),
     table_groups |-> table_groups(raw, <<>>),
     response |-> response, json_content |-> json_content, result |-> <<>>,
     parsed |-> <<>>, resilient |-> <<>>]

\* the engine is not configured, or its request raises, or it answers with
\* one of `responses`: <<is_configured, generate_raises, response>>
Engine(responses) ==
    {<<FALSE, FALSE, [form |-> "empty", fenced |-> FALSE, value |-> Array]>>,
     <<TRUE, TRUE, [form |-> "empty", fenced |-> FALSE, value |-> Array]>>}
    \cup {<<TRUE, FALSE, r>> : r \in responses}

\* ------------------ ocr_service.extract_fields_with_llm_resilient
\* _process_file line 148 and the route at extraction.py line 403 call
\* ocr_service.extract_fields_with_llm_resilient, which ocr_service.py does not
\* hold.  It is taken as the specification describes it: the model-based
\* extraction, then the deterministic fallback, which scans the OCR text line
\* by line for "<field name>: <value>" or "<field name>- <value>",
\* case-insensitively, for every scalar field still not found.

\* <<value>> when `line` gives a value to the field, <<>> when it does not
LineValue(line, name) ==
    LET n == Len(name) IN
    IF /\ name # <<>>
       /\ Len(line) > n + 1
       /\ lower(SubSeq(line, 1, n)) = lower(name)
       /\ line[n + 1] \in {":", "-"}
       /\ strip(SubSeq(line, n + 2, Len(line))) # <<>>
    THEN <<strip(SubSeq(line, n + 2, Len(line)))>>
    ELSE <<>>

MatchingLines(text, name) == {i \in 1..Len(text) : LineValue(text[i], name) # <<>>}

pattern_fallback_overwriting(records, text) ==
    [k \in 1..Len(records) |->
        IF /\ ~IsTableRecord(records[k])
           /\ MatchingLines(text, records[k].name) # {}
        THEN [records[k] EXCEPT
                 !.value = LineValue(text[Min(MatchingLines(text, records[k].name))],
                                     records[k].name)[1],
                 !.confidence = 55,
                 !.coordinate = <<>>]
        ELSE records[k]]

\* the deterministic fallback
pattern_fallback(records, text) ==
    [k \in 1..Len(records) |->
        IF /\ ~IsTableRecord(records[k])
           /\ records[k].value = NOT_FOUND
           /\ MatchingLines(text, records[k].name) # {}
        THEN [records[k] EXCEPT
                 !.value = LineValue(text[Min(MatchingLines(text, records[k].name))],
                                     records[k].name)[1],
                 !.confidence = 55,
                 !.coordinate = <<>>]
        ELSE records[k]]

\* the fallback runs on the records the model-based extraction returned
extract_fields_with_llm_resilient ==
    /\ extraction.state = "returned"
    /\ extraction' = [extraction EXCEPT
                         !.state = "done",
                         !.resilient = pattern_fallback(extraction.result, extraction.text)]
    /\ UNCHANGED <<programVars, fieldVars, located, classified, parsing>>

\* the lines an OCR text may hold
Lines ==
    {<<"a", ":", " ", "p">>, <<"A", "-", "q">>, <<"n", " ", "r">>, <<"n", ":", " ">>}

\* the responses of the two pipeline paths followed: text, or a JSON object
\* with "fields"
ScalarResponses ==
    {[form |-> "text", fenced |-> FALSE, value |-> Array]}
    \cup {[form |-> "json", fenced |-> FALSE,
           value |-> [object |-> TRUE, fields |-> f, tables |-> <<>>]] :
             f \in SeqsUpTo(Entries, MaxEntries)}

\* ------------------------- stored fields and their correction (crud)
\* A stored value is what json.loads made of the engine's answer: a string, or
\* a number when the engine answered with a JSON number. `text` is the text of
\* the string, or the digits of the number.
Str(s) == [type |-> "str", text |-> s]
Zero == [type |-> "int", text |-> <<"0">>]

\* Python's truth test: "" and 0 are false
truthy(v) == IF v.type = "str" THEN v.text # <<>> ELSE v.text # <<"0">>

\* Python's `a or b`
Or(a, b) == IF truthy(a) THEN a ELSE b

\* the values a record of the parser can hold (None and "" have already become
\* the not-found text), and the values a correction request can carry
ExtractedValues == {Str(<<"v">>), Str(NOT_FOUND), Zero}
CorrectionValues == {Str(<<"x">>), Str(<<"y">>), Str(<<>>)}

\* the records of one extraction, before they are stored
ResultFields ==
    {[name |-> n, value |-> v, confidence |-> 80] : n \in {"a", "b"}, v \in ExtractedValues}

\* the list the pipeline stores from the extraction's records
stored_fields(fields) ==
    [k \in 1..Len(fields) |->
        [name |-> fields[k].name,
         value |-> fields[k].value,
         confidence |-> fields[k].confidence,
         original_value |-> fields[k].value,
         is_corrected |-> FALSE]]

\* VectorStoreService.update_document: delete by id, then add
update_document(ix, d) == [ix EXCEPT ![d] = 1]

\* PATCH /processing-runs/documents/{document_id}/fields, field_index counted
\* from 0; `indexed`: the document has a raw text and the index write succeeds
update_extracted_field(d, field_index, value, indexed) ==
    /\ DocExists(d)
    /\ field_index >= 0
    /\ field_index < Len(extracted_fields[d])
    /\ LET f == extracted_fields[d][field_index + 1] IN
        extracted_fields' =
            [extracted_fields EXCEPT ![d][field_index + 1] =
                [f EXCEPT !.original_value = Or(f.original_value, f.value),
                          !.value = value,
                          !.is_corrected = TRUE]]
    /\ index' = IF indexed THEN update_document(index, d) ELSE index
    /\ last' = Other
    /\ UNCHANGED <<ocrInitialized, runStatus, docStatus, docVars, docData, blobs, wrote,
                   tempFile, pc, taskVars, scanVars, extraction, first_extraction,
                   located, classified, parsing>>

\* ------------------------------------------ the coordinate locator's calls
\* the texts of OCR blocks (_parse_deepseek_grounding strips them; a block may
\* have no text) and the values looked for
BlockContents == {<<>>, <<"A">>, <<"v">>, <<"A", " ", "v">>}
LocatorValues ==
    {<<"v">>, <<"v", " ">>, <<" ">>, <<"A", " ", "v">>, <<"a", " ", "g">>,
     <<"g", " ", "h">>, <<"a", " ", "g", " ", "h">>}

\* the parsing_res_list of blocks with the given texts; block i of the page
\* has the box (i, i, i + 1, i + 1)
blocks_of(contents) ==
    [i \in 1..Len(contents) |->
        [block_content |-> contents[i], block_bbox |-> <<i, i, i + 1, i + 1>>]]

find_coordinate_returns ==
    /\ located.state = "called"
    /\ located' = [located EXCEPT
                      !.state = "returned",
                      !.coordinate = find_coordinate_for_value(located.value,
                                                               located.json_content)]
    /\ UNCHANGED <<programVars, extraction, fieldVars, classified, parsing>>

\* --------------------------------------- llm_service, the classifier
\* A candidate is [id, name, fields]; ids are the positions 1, 2, ... in the
\* list and 0 is None.

\* the name counted as one field more
type_score_flat(text_lower, doc_type) ==
    (IF lower(doc_type.name) # <<>> /\ Contains(lower(doc_type.name), text_lower)
     THEN 1 ELSE 0)
    + Cardinality({k \in 1..Len(doc_type.fields) :
                      /\ lower(doc_type.fields[k]) # <<>>
                      /\ Contains(lower(doc_type.fields[k]), text_lower)})

\* lines 174-182: the score of one candidate
type_score(text_lower, doc_type) ==
    (IF lower(doc_type.name) # <<>> /\ Contains(lower(doc_type.name), text_lower)
     THEN 3 ELSE 0)
    + Cardinality({k \in 1..Len(doc_type.fields) :
                      /\ lower(doc_type.fields[k]) # <<>>
                      /\ Contains(lower(doc_type.fields[k]), text_lower)})

\* lines 171-186: the loop over the candidates from position k on
RECURSIVE best_type(_, _, _, _, _)
best_type(text_lower, document_types, k, best_score, best_id) ==
    IF k > Len(document_types) THEN best_id
    ELSE LET score == type_score(text_lower, document_types[k]) IN
         IF score > best_score
         THEN best_type(text_lower, document_types, k + 1, score, document_types[k].id)
         ELSE best_type(text_lower, document_types, k + 1, best_score, best_id)

\* _score_document_types_simple
score_document_types_simple(text, document_types) ==
    IF text = <<>> \/ document_types = <<>> THEN 0
    ELSE best_type(lower(text), document_types, 1, 0, 0)

\* classify_document_type; engine.parsed is the id _parse_classification
\* returns for the engine's answer (0: no JSON, null, or an id not allowed)
classify_document_type(text, document_types, engine) ==
    IF text = <<>> \/ document_types = <<>> THEN 0
    ELSE IF ~engine.is_configured THEN score_document_types_simple(text, document_types)
    ELSE IF ~engine.generate_raises /\ engine.parsed # 0 THEN engine.parsed
    ELSE score_document_types_simple(text, document_types)

\* the fallback scoring decides the answer of the call
ScoredByFallback(call) ==
    \/ ~call.engine.is_configured
    \/ call.engine.generate_raises
    \/ call.engine.parsed = 0

classify_returns ==
    /\ classified.state = "called"
    /\ classified' = [classified EXCEPT
                         !.state = "returned",
                         !.result = classify_document_type(classified.text,
                                                           classified.document_types,
                                                           classified.engine)]
    /\ UNCHANGED <<programVars, extraction, fieldVars, located, parsing>>

\* names and field lists of document types (both may hold an empty string:
\* DocumentTypeUpdate validates neither), OCR texts, and the engine's outcomes
TypeNames == {<<>>, <<"A">>, <<"g">>}
TypeFields ==
    {<<>>, <<<<>>>>, <<<<"G">>>>, <<<<"h">>>>, <<<<"G">>, <<"h">>>>, <<<<"G">>, <<"G">>>>}
Texts == {<<>>, <<"g">>, <<"A", " ", "h">>, <<"a", " ", "g", " ", "h">>}
ClassifierEngines ==
    {[is_configured |-> FALSE, generate_raises |-> FALSE, parsed |-> 0],
     [is_configured |-> TRUE, generate_raises |-> TRUE, parsed |-> 0],
     [is_configured |-> TRUE, generate_raises |-> FALSE, parsed |-> 0],
     [is_configured |-> TRUE, generate_raises |-> FALSE, parsed |-> 1]}

\* _classify_document_type lines 78-87: the payload of the candidates
payload(names, fields) ==
    [i \in 1..Len(names) |-> [id |-> i, name |-> names[i], fields |-> fields[i]]]

\* ------------------------------------------------ the parser's calls
\* the responses of `Responses` and those that hold prose or a fenced block
\* next to the JSON text
ParseResponses ==
    Responses
    \cup {[form |-> "prose_json", fenced |-> b, value |-> v] : b \in BOOLEAN, v \in Values}
    \cup {[form |-> "json_after_fence", fenced |-> FALSE, value |-> v] : v \in Values}

safe_parse_json_returns ==
    /\ parsing.state = "called"
    /\ parsing' = [parsing EXCEPT !.state = "returned",
                                  !.data = safe_parse_json(parsing.response)]
    /\ UNCHANGED <<programVars, extraction, fieldVars, located, classified>>

\* ------------------------------------------------------- specification
\* An empty database, an empty bucket, no task; the OCR engine did or did not
\* initialize at start-up.
\* no run, no document, no file, no task, no scan
InitProgram ==
    /\ runStatus = [r \in Runs |-> "none"]
    /\ docStatus = [d \in Docs |-> "none"]
    /\ docRun = [d \in Docs |-> 0]
    /\ docName = [d \in Docs |-> ""]
    /\ docKey = [d \in Docs |-> <<>>]
    /\ docData = [d \in Docs |-> 0]
    /\ blobs = {}
    /\ index = [d \in Docs |-> 0]
    /\ tempFile = [n \in Names |-> 0]
    /\ pc = [d \in Docs |-> "none"]
    /\ retries = [d \in Docs |-> 0]
    /\ executions = [d \in Docs |-> 0]
    /\ startData = [d \in Docs |-> 0]
    /\ wrote = [d \in Docs |-> {}]
    /\ raised = [d \in Docs |-> "none"]
    /\ last = Other
    /\ processedFiles = {}
    /\ scanPc = [s \in Scanners |-> "idle"]
    /\ scanProcessed = [s \in Scanners |-> {}]
    /\ scanNew = [s \in Scanners |-> <<>>]
    /\ scanDoc = [s \in Scanners |-> 0]
    /\ scanFailed = {}
    /\ folder = {}
    /\ extracted_fields = [d \in Docs |-> <<>>]
    /\ first_extraction = [d \in Docs |-> <<>>]

Init ==
    /\ ocrInitialized \in BOOLEAN
    /\ InitProgram
    /\ extraction = NoCall
    /\ located = NoCall
    /\ classified = NoCall
    /\ parsing = NoCall

\* requests that change the statuses of existing runs and documents
StatusStep ==
    \/ \E r \in Runs : mark_run_as_reviewed(r)
    \/ \E r \in Runs : cancel_run_review(r)
    \/ \E d \in Docs : mark_document_reviewed(d)
    \/ \E d \in Docs : cancel_document_review(d)
    \/ \E r \in Runs, s \in Statuses : update_processing_run_status(r, s)
    \/ \E d \in Docs, s \in Statuses : update_document_status(d, s)

\* uploads, while fewer than `limit` documents exist
UploadStep(limit) ==
    /\ Created < limit
    /\ \/ \E r \in Runs \cup {0}, n \in Names : extract_and_save_async(r, n)
       \/ \E r \in Runs \cup {0}, n \in Names : extract_and_save(r, n)

TaskStep ==
    \/ \E d \in Docs : task_begin(d)
    \/ \E d \in Docs : task_not_initialized(d)
    \/ \E d \in Docs : task_extract_fails(d)
    \/ \E d \in Docs : task_save_results(d)
    \/ \E d \in Docs, indexed \in BOOLEAN : task_finish(d, indexed)
    \/ \E d \in Docs, indexed \in BOOLEAN : task_fails_late(d, indexed)
    \/ \E d \in Docs : task_handler_document(d)
    \/ \E d \in Docs : task_handler_run(d)
    \/ \E d \in Docs : task_handler_fails(d)

SyncStep ==
    \/ \E d \in Docs : sync_not_initialized(d)
    \/ \E d \in Docs : sync_save_results(d)
    \/ \E d \in Docs : sync_fails(d)
    \/ \E d \in Docs, indexed \in BOOLEAN : sync_finish(d, indexed)

\* the executions of the scanner in the slots S, on the files F, while fewer
\* than `limit` documents exist
ScanStep(S, F, limit) ==
    \/ \E f \in F : file_arrives(f)
    \/ \E s \in S : scan_begin(s)
    \/ \E s \in S, raises \in BOOLEAN : scan_skip_file(s, raises)
    \/ Created < limit /\ \E s \in S : scan_create_document(s)
    \/ \E s \in S : scan_save_results(s)
    \/ \E s \in S : scan_file_fails(s)
    \/ \E s \in S, indexed \in BOOLEAN : scan_finish(s, indexed)
    \/ \E s \in S : scan_persist(s)
    \/ \E s \in S : scan_crash(s)

Next ==
    \/ StatusStep
    \/ create_processing_run
    \/ UploadStep(MaxCreated)
    \/ TaskStep
    \/ SyncStep
    \/ ScanStep({1}, {"f.pdf"}, MaxCreated)

Spec == Init /\ [][Next]_vars

\* One or more submissions of process_document_task and nothing else: the async
\* route and the steps of the task.
NextTask ==
    \/ /\ Created < MaxSubmitted
       /\ \E r \in Runs \cup {0}, n \in Names : extract_and_save_async(r, n)
    \/ TaskStep

SpecTask == Init /\ [][NextTask]_vars

\* A single submission of process_document_task, from the upload to the end of
\* its last attempt.
NextSubmission ==
    \/ /\ Created = 0
       /\ \E r \in Runs \cup {0}, n \in Names : extract_and_save_async(r, n)
    \/ TaskStep

SpecSubmission == Init /\ [][NextSubmission]_vars

\* The status requests of users on documents whose task has not started yet
\* (no worker is consuming the queue).
NextStatus ==
    \/ /\ Created < MaxSubmitted
       /\ \E r \in Runs \cup {0}, n \in Names : extract_and_save_async(r, n)
    \/ StatusStep

SpecStatus == Init /\ [][NextStatus]_vars

\* The field extraction alone: one call of LLMService.extract_fields on every
\* document type, engine state and engine response of the bounded sets.
InitExtract ==
    /\ ocrInitialized = TRUE
    /\ InitProgram
    /\ located = NoCall
    /\ classified = NoCall
    /\ parsing = NoCall
    /\ \E raw \in SeqsUpTo(RawFields, MaxFields), j \in JsonContents,
          c \in Engine(Responses) :
           extraction = Call(raw, c[1], c[2], c[3], j, <<>>)

NextExtract == extract_fields_returns

SpecExtract == InitExtract /\ [][NextExtract]_vars

\* The two pipeline paths with the fallback: the model-based extraction, then
\* the deterministic fallback on its records.
InitResilient ==
    /\ ocrInitialized = TRUE
    /\ InitProgram
    /\ located = NoCall
    /\ classified = NoCall
    /\ parsing = NoCall
    /\ \E raw \in SeqsUpTo({f \in RawFields : ~f.table}, MaxFields), j \in JsonContents,
          text \in SeqsUpTo(Lines, MaxLines), c \in Engine(ScalarResponses) :
           extraction = Call(raw, c[1], c[2], c[3], j, text)

NextResilient ==
    \/ extract_fields_returns
    \/ extract_fields_with_llm_resilient

SpecResilient == InitResilient /\ [][NextResilient]_vars

\* The folder scanner alone: every execution the worker can run at a time, on
\* a folder into which files are dropped.
NextScan == ScanStep(Scanners, FolderFiles, MaxScanned)

SpecScan == Init /\ [][NextScan]_vars

\* ------------------------------------------------- document-level review
\* Runs whose documents have all finished extraction: k documents uploaded
\* through the async route as "b.png" into runs f[1..k], every task succeeded at
\* its first attempt (the index write skipped), so every document and every run
\* is in needs_review.
InitReview ==
    \E k \in 1..MaxDocs : \E f \in [1..k -> Runs] :
        /\ \A r \in Runs : (\E d \in 1..k : f[d] = r)
                                => \A q \in 1..r : \E d \in 1..k : f[d] = q
        /\ LET key(d) == <<"file", f[d], "b.png",
                           Cardinality({e \in 1..(d - 1) : f[e] = f[d]})>> IN
            /\ ocrInitialized = TRUE
            /\ runStatus = [r \in Runs |-> IF \E d \in 1..k : f[d] = r
                                           THEN NEEDS_REVIEW ELSE "none"]
            /\ docStatus = [d \in Docs |-> IF d <= k THEN NEEDS_REVIEW ELSE "none"]
            /\ docRun = [d \in Docs |-> IF d <= k THEN f[d] ELSE 0]
            /\ docName = [d \in Docs |-> IF d <= k THEN "b.png" ELSE ""]
            /\ docKey = [d \in Docs |-> IF d <= k THEN key(d) ELSE <<>>]
            /\ docData = [d \in Docs |-> IF d <= k THEN d ELSE 0]
            /\ blobs = {key(d) : d \in 1..k}
            /\ index = [d \in Docs |-> 0]
            /\ tempFile = [n \in Names |-> 0]
            /\ pc = [d \in Docs |-> IF d <= k THEN "done" ELSE "none"]
            /\ retries = [d \in Docs |-> 0]
            /\ executions = [d \in Docs |-> IF d <= k THEN 1 ELSE 0]
            /\ startData = [d \in Docs |-> 0]
            /\ wrote = [d \in Docs |-> IF d <= k THEN {key(d)} ELSE {}]
            /\ raised = [d \in Docs |-> "none"]
            /\ last = Other
            /\ processedFiles = {}
            /\ scanPc = [s \in Scanners |-> "idle"]
            /\ scanProcessed = [s \in Scanners |-> {}]
            /\ scanNew = [s \in Scanners |-> <<>>]
            /\ scanDoc = [s \in Scanners |-> 0]
            /\ scanFailed = {}
            /\ folder = {}
            /\ extraction = NoCall
            /\ located = NoCall
            /\ classified = NoCall
            /\ parsing = NoCall
    /\ located = NoCall
    /\ classified = NoCall
    /\ parsing = NoCall
            /\ extracted_fields = [d \in Docs |-> <<>>]
            /\ first_extraction = [d \in Docs |-> <<>>]

NextReview ==
    \/ \E d \in Docs : mark_document_reviewed(d)
    \/ \E d \in Docs : cancel_document_review(d)

SpecReview == InitReview /\ [][NextReview]_vars

\* Corrections of the fields of one processed document: document 1 of run 1
\* went through the pipeline, which stored the records of its extraction.
InitFields ==
    /\ ocrInitialized = TRUE
    /\ runStatus = [r \in Runs |-> IF r = 1 THEN NEEDS_REVIEW ELSE "none"]
    /\ docStatus = [d \in Docs |-> IF d = 1 THEN NEEDS_REVIEW ELSE "none"]
    /\ docRun = [d \in Docs |-> IF d = 1 THEN 1 ELSE 0]
    /\ docName = [d \in Docs |-> IF d = 1 THEN "b.png" ELSE ""]
    /\ docKey = [d \in Docs |-> IF d = 1 THEN <<"file", 1, "b.png", 0>> ELSE <<>>]
    /\ docData = [d \in Docs |-> IF d = 1 THEN 1 ELSE 0]
    /\ blobs = {<<"file", 1, "b.png", 0>>}
    /\ index \in {[d \in Docs |-> IF d = 1 THEN n ELSE 0] : n \in {0, 1}}
    /\ tempFile = [n \in Names |-> 0]
    /\ pc = [d \in Docs |-> IF d = 1 THEN "done" ELSE "none"]
    /\ retries = [d \in Docs |-> 0]
    /\ executions = [d \in Docs |-> IF d = 1 THEN 1 ELSE 0]
    /\ startData = [d \in Docs |-> 0]
    /\ wrote = [d \in Docs |-> IF d = 1 THEN {<<"file", 1, "b.png", 0>>} ELSE {}]
    /\ raised = [d \in Docs |-> "none"]
    /\ last = Other
    /\ processedFiles = {}
    /\ scanPc = [s \in Scanners |-> "idle"]
    /\ scanProcessed = [s \in Scanners |-> {}]
    /\ scanNew = [s \in Scanners |-> <<>>]
    /\ scanDoc = [s \in Scanners |-> 0]
    /\ scanFailed = {}
    /\ folder = {}
    /\ extraction = NoCall
    /\ located = NoCall
    /\ classified = NoCall
    /\ parsing = NoCall
    /\ \E fields \in SeqsUpTo(ResultFields, MaxStored) :
        /\ first_extraction = [d \in Docs |-> IF d = 1 THEN fields ELSE <<>>]
        /\ extracted_fields = [d \in Docs |-> IF d = 1 THEN stored_fields(fields) ELSE <<>>]

NextFields ==
    \E d \in Docs, field_index \in 0..(MaxStored - 1), value \in CorrectionValues,
       indexed \in BOOLEAN :
        update_extracted_field(d, field_index, value, indexed)

SpecFields == InitFields /\ [][NextFields]_vars

\* The coordinate locator alone: one call on every value and block list of the
\* bounded sets.
InitLocate ==
    /\ ocrInitialized = TRUE
    /\ InitProgram
    /\ extraction = NoCall
    /\ classified = NoCall
    /\ parsing = NoCall
    /\ \E value \in LocatorValues, contents \in SeqsUpTo(BlockContents, MaxBlocks) :
        located = [state |-> "called", value |-> value,
                   json_content |-> blocks_of(contents), coordinate |-> <<>>]

NextLocate == find_coordinate_returns

SpecLocate == InitLocate /\ [][NextLocate]_vars

\* The classifier alone: one call of classify_document_type on every text,
\* candidate list and engine outcome of the bounded sets.
InitClassify ==
    /\ ocrInitialized = TRUE
    /\ InitProgram
    /\ extraction = NoCall
    /\ located = NoCall
    /\ parsing = NoCall
    /\ \E n \in 0..MaxTypes : \E names \in [1..n -> TypeNames], fields \in [1..n -> TypeFields],
          text \in Texts, engine \in ClassifierEngines :
        classified = [state |-> "called", text |-> text,
                      document_types |-> payload(names, fields),
                      engine |-> engine, result |-> 0]

NextClassify == classify_returns

SpecClassify == InitClassify /\ [][NextClassify]_vars

\* The response parser alone: one call of _safe_parse_json on every response.
InitParse ==
    /\ ocrInitialized = TRUE
    /\ InitProgram
    /\ extraction = NoCall
    /\ located = NoCall
    /\ classified = NoCall
    /\ \E response \in ParseResponses :
        parsing = [state |-> "called", response |-> response, data |-> <<>>]

NextParse == safe_parse_json_returns

SpecParse == InitParse /\ [][NextParse]_vars

\* The two pipelines that run without a request: the tasks of async uploads
\* and one scanner, with no status request in between.
NextPipeline ==
    \/ /\ Created < MaxCreated
       /\ \E r \in Runs \cup {0}, n \in Names : extract_and_save_async(r, n)
    \/ TaskStep
    \/ ScanStep({1}, {"f.pdf"}, MaxCreated)

SpecPipeline == Init /\ [][NextPipeline]_vars

\* C1: from a run whose documents are all in needs_review, after any sequence
\* of mark_document_reviewed / cancel_document_review calls on its documents
\* the run is reviewed if and only if every document of the run is reviewed.
RunReviewedIffAllReviewed ==
    \A r \in Runs : DocsOf(r) # {} =>
        (runStatus[r] = REVIEWED <=> \A d \in DocsOf(r) : docStatus[d] = REVIEWED)

\* a run of two documents or more was reviewed document by document
RunReviewedByDocuments ==
    \E r \in Runs : /\ Cardinality(DocsOf(r)) >= 2
                     /\ \A d \in DocsOf(r) : docStatus[d] = REVIEWED
                     /\ runStatus[r] = REVIEWED

\* ----------------------------------------------------- run consistency
\* C2: in every reachable state a run whose status is reviewed has every one
\* of its documents in status reviewed.  Refuted in Spec: a direct status update
\* of the run, or an upload into a reviewed run, leaves a reviewed run with a
\* document that is not reviewed.
ReviewedRunHasReviewedDocuments ==
    \A r \in Runs : runStatus[r] = REVIEWED =>
        \A d \in DocsOf(r) : docStatus[d] = REVIEWED

\* ------------------------------------------------------- retry budget
\* C3 (as amended): the body of one submission is executed at most
\* max_retries + 1 = 4 times, whatever exception each attempt raises.
ExecutedAtMostOnePlusMaxRetries ==
    \A d \in Docs : executions[d] <= max_retries + 1

\* C3 as stated: the body of one submission is executed at most 3 times.
ExecutedAtMostThreeTimes ==
    \A d \in Docs : executions[d] <= 3

\* a submission failed for good after its fourth execution
RetriesExhausted ==
    \E d \in Docs : executions[d] = max_retries + 1 /\ pc[d] = "failed"

\* ------------------------------------------------------ final failure
\* C4: when a submission fails on its last allowed attempt, the document and
\* its run are both in status error in the resulting state and the original
\* exception (not Retry) is raised.  Refuted in Spec: the two status writes of
\* the handler may be swallowed, and a request may change the document between
\* them.
FinalFailureSetsError ==
    [][\A d \in Docs : (pc[d] # "failed" /\ pc'[d] = "failed" /\ retries[d] = max_retries)
          => /\ docStatus'[d] = ERROR
             /\ runStatus'[docRun[d]] = ERROR
             /\ raised'[d] \in {"RuntimeError", "Exception"}]_vars

\* C5: while the handler of a failed attempt runs, the persisted results of
\* the document are those it had when the attempt started.  Refuted in
\* SpecTask: a failure after update_document_extraction_results leaves the
\* results of the failed attempt in the record.
FailedAttemptPersistsNothing ==
    \A d \in Docs : pc[d] \in {"except", "except2"} => docData[d] = startData[d]

\* ---------------------------------------------------------- idempotence
\* C6: after the attempts of one submission ended in success there is one
\* primary blob (the key computed by the route), at most one preview blob, and
\* at most one index entry under the document's id.  Refuted in SpecTask: an
\* attempt that fails after the index write and a retry that succeeds insert
\* two rows under the same id.
SuccessLeavesOneOfEach ==
    \A d \in Docs : (pc[d] = "done" /\ executions[d] >= 1) =>
        /\ wrote[d] \subseteq {docKey[d], PreviewKey(d)}
        /\ index[d] <= 1

\* ------------------------------------------------------- status edges
\* C7: once a document is in status error no step of a task (an attempt, its
\* handler, a retry) changes its status.  Refuted in SpecTask: every retry
\* begins by setting the document to processing.
ErrorIsTerminalForTasks ==
    [][TaskStep => \A d \in Docs : docStatus[d] = ERROR => docStatus'[d] = ERROR]_vars

AllowedEdges ==
    {<<PROCESSING, NEEDS_REVIEW>>, <<NEEDS_REVIEW, REVIEWED>>,
     <<REVIEWED, NEEDS_REVIEW>>, <<PROCESSING, ERROR>>}

\* C8: every change of a document's status is one of the edges
\* processing->needs_review, needs_review->reviewed, reviewed->needs_review,
\* processing->error.  Refuted in Spec: no operation checks the status it
\* replaces.
OnlyAllowedEdges ==
    [][\A d \in Docs : (docStatus[d] \in Statuses /\ docStatus'[d] # docStatus[d])
          => <<docStatus[d], docStatus'[d]>> \in AllowedEdges]_vars

\* C9: mark_run_as_reviewed leaves the run and every document of it in
\* reviewed, cancel_run_review leaves them in needs_review, whatever the
\* statuses were before the call.
RunReviewForcesStatuses ==
    \A r \in Runs :
        /\ last[1] = "mark_run_as_reviewed" /\ last[2] = r =>
              /\ runStatus[r] = REVIEWED
              /\ \A d \in DocsOf(r) : docStatus[d] = REVIEWED
        /\ last[1] = "cancel_run_review" /\ last[2] = r =>
              /\ runStatus[r] = NEEDS_REVIEW
              /\ \A d \in DocsOf(r) : docStatus[d] = NEEDS_REVIEW

\* mark_run_as_reviewed has just acted on a run of two documents, one in
\* processing and one in error
RunReviewedOverProcessingAndError ==
    /\ last[1] = "mark_run_as_reviewed"
    /\ Cardinality(DocsOf(last[2])) >= 2
    /\ {PROCESSING, ERROR} \subseteq last[3]

\* C10: when a pipeline fails for good for a document that is in processing,
\* the document does not stay in processing.  Refuted in Spec: the synchronous
\* route and the scanner answer the exception without touching the document.
FailureEndsProcessing ==
    [][\A d \in Docs : (pc[d] # "failed" /\ pc'[d] = "failed" /\ docStatus[d] = PROCESSING)
          => docStatus'[d] # PROCESSING]_vars

\* ---------------------------------------------------------- serialization
\* the task of document d is in flight: submitted, and its last attempt has
\* not finished (waiting for a worker or for a retry, or executing)
InFlight(d) == pc[d] \in {"queued", "started", "written", "except", "except2"}

\* C11: while the task of a document is in flight no request of a user
\* changes the status of that document.  Refuted in Spec: the crud functions
\* take no lock and look at no task state, so a review request or a status
\* update on the document lands between two steps of its task.
NoRequestChangesInFlightDocument ==
    [][StatusStep => \A d \in Docs : InFlight(d) => docStatus'[d] = docStatus[d]]_vars

\* an execution of the scanner calls _process_file on the file at the head of
\* its new_files (scan_folder_triggers line 255)
ProcessFileCalled(s) ==
    /\ scanPc[s] = "batch"
    /\ scanNew[s] # <<>>
    /\ \/ scanPc'[s] = "file"
       \/ scanPc'[s] = "batch" /\ scanNew'[s] = Tail(scanNew[s])

\* an execution of the scanner commits its set (scan_folder_triggers line 266)
BatchPersisted(s) ==
    /\ scanPc[s] = "batch"
    /\ scanNew[s] = <<>>
    /\ scanPc'[s] = "idle"
    /\ scanProcessed'[s] = scanProcessed[s]

EveryRequestedFieldInOutput ==
    extraction.state = "returned" =>
        \A i \in 1..Len(extraction.fields_to_extract) :
            \E k \in ScalarRecords(extraction.result) :
                extraction.result[k].name = extraction.fields_to_extract[i]

\* no parsing step can make a JSON object of the response text
NotAnObject(response) ==
    \/ response.form \in {"empty", "text", "truncated"}
    \/ ~response.value.object

\* C17: on a response that cannot be parsed into a JSON object (a parsed value
\* that is not an object included) the reconciliation does not raise and
\* returns the not-found placeholder of every requested scalar field, once
\* each, and nothing else.
UnparseableResponseFallsBack ==
    /\ extraction.state = "returned"
    /\ extraction.parsed # <<>>
    /\ NotAnObject(extraction.response)
    => /\ ~extraction.parsed[1].raised
       /\ extraction.parsed[1].result =
             [i \in 1..Len(extraction.fields_to_extract) |->
                 Placeholder(extraction.fields_to_extract[i])]

\* a response table carries a name that no configured group matches, neither
\* exactly nor as a substring in either direction
Unmatched(table, groups) ==
    /\ table.group # <<>>
    /\ \A g \in 1..Len(groups) :
          LET group_key == strip(lower(table.group))
              lookup_key == strip(lower(groups[g][1])) IN
          ~Contains(group_key, lookup_key) /\ ~Contains(lookup_key, group_key)

\* C18: every table record names a configured group and a column declared
\* for it; with more than one group configured, response tables that match no
\* configured group contribute no record.
TableRecordsFollowSchema ==
    /\ extraction.state = "returned"
    /\ extraction.parsed # <<>>
    /\ ~NotAnObject(extraction.response)
    => LET result == extraction.parsed[1].result
           groups == extraction.table_groups
           tables == extraction.response.value.tables IN
       /\ \A k \in TableRecords(result) :
             \E g \in 1..Len(groups) :
                /\ result[k].group = groups[g][1]
                /\ \E c \in 1..Len(groups[g][2]) : result[k].name = groups[g][2][c]
       /\ (/\ Len(groups) > 1
           /\ \A t \in 1..Len(tables) : Unmatched(tables[t], groups))
          => TableRecords(result) = {}

\* C20: no two table records of one document share (group, row_index, name).
TableRecordKeysUnique ==
    extraction.state = "returned" =>
        \A k1, k2 \in TableRecords(extraction.result) :
            /\ extraction.result[k1].group = extraction.result[k2].group
            /\ extraction.result[k1].row_index = extraction.result[k2].row_index
            /\ extraction.result[k1].name = extraction.result[k2].name
            => k1 = k2

Genuine(value) == value \notin {NOT_FOUND, EXTRACTION_ERROR}

\* C19: the fallback leaves value and confidence of every scalar field that
\* holds a genuine value, and gives a not-found scalar field whose name stands
\* in the OCR text as "<name>: <value>" or "<name>- <value>" that value, with
\* confidence 0.55 and no coordinate.
FallbackKeepsGenuineFillsNotFound ==
    extraction.state = "done" =>
        /\ Len(extraction.resilient) = Len(extraction.result)
        /\ \A k \in ScalarRecords(extraction.result) :
              LET before == extraction.result[k]
                  after == extraction.resilient[k]
                  lines == MatchingLines(extraction.text, before.name) IN
              /\ Genuine(before.value) =>
                    after.value = before.value /\ after.confidence = before.confidence
              /\ before.value = NOT_FOUND /\ lines # {} =>
                    /\ \E i \in lines :
                          after.value = LineValue(extraction.text[i], before.name)[1]
                    /\ after.confidence = 55
                    /\ after.coordinate = <<>>

\* the fallback has run on a genuine value whose name stands in the text and
\* on a not-found field that it filled
FallbackKeptOneFilledOne ==
    /\ extraction.state = "done"
    /\ \E k \in ScalarRecords(extraction.result) :
          /\ Genuine(extraction.result[k].value)
          /\ extraction.result[k].coordinate # <<>>
          /\ MatchingLines(extraction.text, extraction.result[k].name) # {}
    /\ \E k \in ScalarRecords(extraction.result) :
          /\ extraction.result[k].value = NOT_FOUND
          /\ extraction.resilient[k].confidence = 55

\* ------------------------------------------------------ field corrections
\* C21: whatever corrections are applied to a document's fields, each field's
\* original_value stays the value its first extraction produced, and one
\* correction changes nothing but the value and is_corrected of the field at
\* the given index.
CorrectionKeepsOriginalValue ==
    [][\A d \in Docs :
        extracted_fields'[d] # extracted_fields[d] =>
            /\ Len(extracted_fields'[d]) = Len(extracted_fields[d])
            /\ \A k \in DOMAIN extracted_fields[d] :
                extracted_fields'[d][k].original_value = first_extraction[d][k].value
            /\ \E i \in DOMAIN extracted_fields[d] :
                /\ \A k \in DOMAIN extracted_fields[d] :
                    k # i => extracted_fields'[d][k] = extracted_fields[d][k]
                /\ extracted_fields'[d][i] =
                    [extracted_fields[d][i] EXCEPT
                        !.value = extracted_fields'[d][i].value,
                        !.is_corrected = extracted_fields'[d][i].is_corrected]]_vars

\* ------------------------------------------------------ coordinate locator
\* the blocks that have a text containing v, the blocks in which at least half
\* of the words of a value of two or more words are found, and the box the
\* claim expects for a value compared as v
Containing(v, blocks) ==
    {i \in 1..Len(blocks) :
        blocks[i].block_content # <<>> /\ Contains(v, lower(blocks[i].block_content))}

Overlapping(v, blocks) ==
    LET words == split(v, <<>>, <<>>) IN
    {i \in 1..Len(blocks) :
        /\ Len(words) >= 2
        /\ blocks[i].block_content # <<>>
        /\ 2 * Cardinality({w \in 1..Len(words) :
                               Contains(words[w], lower(blocks[i].block_content))})
               >= Len(words)}

Preferred(v, blocks) ==
    IF Containing(v, blocks) # {} THEN blocks[Min(Containing(v, blocks))].block_bbox
    ELSE IF Overlapping(v, blocks) # {} THEN blocks[Min(Overlapping(v, blocks))].block_bbox
    ELSE <<>>

\* C22 as stated: the locator returns the box of the first block whose text
\* contains the value, compared without regard to case, whenever there is one,
\* even when an earlier block passes the word-overlap rule; the overlap rule
\* decides only when no block contains the value; with no match it returns none.
LocatorPrefersContainingBlock ==
    located.state = "returned" =>
        located.coordinate = Preferred(lower(located.value), located.json_content)

\* C22 amended: the same, for the value without its surrounding whitespace.
LocatorPrefersBlockContainingStrippedValue ==
    located.state = "returned" =>
        located.coordinate = Preferred(strip(lower(located.value)), located.json_content)

\* a later block contains the value, an earlier one only passes the overlap
\* rule, and the later block's box is returned
LocatedPastOverlappingBlock ==
    /\ located.state = "returned"
    /\ LET v == strip(lower(located.value)) IN
        \E i \in Containing(v, located.json_content) :
            /\ \E k \in Overlapping(v, located.json_content) : k < i
            /\ i = Min(Containing(v, located.json_content))
            /\ located.coordinate = located.json_content[i].block_bbox

Highest(scores) ==
    IF \A i \in DOMAIN scores : scores[i] = 0 THEN 0
    ELSE Min({i \in DOMAIN scores : \A k \in DOMAIN scores : scores[k] <= scores[i]})

\* 3 for the lower-cased name found in the lower-cased text, 1 for each field
\* name found in it
StatedScores(text, document_types) ==
    [i \in 1..Len(document_types) |->
        (IF Contains(lower(document_types[i].name), lower(text)) THEN 3 ELSE 0)
        + Cardinality({k \in 1..Len(document_types[i].fields) :
                          Contains(document_types[i].fields[k], lower(text))})]

\* the same with the field names lower-cased too and empty names adding nothing
AmendedScores(text, document_types) ==
    [i \in 1..Len(document_types) |->
        (IF /\ document_types[i].name # <<>>
            /\ Contains(lower(document_types[i].name), lower(text)) THEN 3 ELSE 0)
        + Cardinality({k \in 1..Len(document_types[i].fields) :
                          /\ document_types[i].fields[k] # <<>>
                          /\ Contains(lower(document_types[i].fields[k]), lower(text))})]

\* C24 as stated: the fallback classifier gives a candidate 3 if its lower-cased
\* name is a substring of the lower-cased text plus 1 for each of its field
\* names that is a substring of the lower-cased text, and returns the candidate
\* with the highest score, the first in list order among equals, none when
\* every candidate scores 0.
FallbackPicksHighestStatedScore ==
    classified.state = "returned" /\ ScoredByFallback(classified) =>
        classified.result = Highest(StatedScores(classified.text, classified.document_types))

\* C24 amended: the same, with the field names lower-cased like the type name
\* and with an empty name or field name adding nothing.
FallbackPicksHighestScore ==
    classified.state = "returned" /\ ScoredByFallback(classified) =>
        classified.result = Highest(AmendedScores(classified.text, classified.document_types))

\* the fallback chose the earlier of two candidates with the same score above 0
FallbackChoseFirstOfEquals ==
    /\ classified.state = "returned"
    /\ ScoredByFallback(classified)
    /\ Len(classified.document_types) >= 2
    /\ classified.result = 1
    /\ LET scores == AmendedScores(classified.text, classified.document_types) IN
        /\ scores[1] = scores[2]
        /\ scores[1] > 0

\* ------------------------------------------------------------ name matching
\* two names are equal once lower-cased and stripped, or one of them then is a
\* substring of the other
NameMatches(a, b) ==
    LET x == strip(lower(a))
        y == strip(lower(b)) IN
    x = y \/ Contains(x, y) \/ Contains(y, x)

\* C25: a response field whose normalized name equals a requested scalar
\* field's, or is a substring of it, or has it as a substring, produces a
\* record under that requested field's name; only response fields that match
\* no requested name are dropped.
ResponseFieldsMatchedBySubstring ==
    LET data == safe_parse_json(extraction.response) IN
    /\ extraction.state = "returned"
    /\ extraction.parsed # <<>>
    /\ data # <<>>
    /\ data[1].object
    => LET result == extraction.parsed[1].result
           fields == extraction.fields_to_extract IN
       \A e \in 1..Len(data[1].fields) :
           (\E i \in 1..Len(fields) : NameMatches(data[1].fields[e].name, fields[i]))
           => \E k \in ScalarRecords(result) :
                 /\ NameMatches(data[1].fields[e].name, result[k].name)
                 /\ result[k].confidence = data[1].fields[e].confidence
                 /\ result[k].value = Normalized(data[1].fields[e].values[1])

\* ------------------------------------------------------- parsing pipeline
\* the response holds the text of a JSON object that one of the four steps can
\* parse: as it stands, inside prose or after a fenced block, with trailing
\* commas, or as a literal
HoldsParseableObject(response) ==
    /\ response.value.object
    /\ response.form \in {"json", "prose_json", "json_after_fence", "trailing_comma",
                          "literal"}

\* C26: the parser tries the content of a fenced block, then the first balanced
\* object of the response, then the same without trailing commas, then a
\* literal parse, each step only after the previous one failed; so a response
\* that holds a parseable object is parsed to it, also when it holds a fenced
\* block that does not parse.
ParsingRecoversBalancedObject ==
    parsing.state = "returned" /\ HoldsParseableObject(parsing.response) =>
        parsing.data = <<parsing.response.value>>

\* ------------------------------------------------- index write failures
\* C27: when the index write of a pipeline run fails, the run goes on: the
\* document is in needs_review with its results stored, the run is in
\* needs_review, the attempt has ended without an exception and no retry is
\* queued.
IndexFailureIsNotFatal ==
    last[1] = "index_failed" =>
        LET d == last[2] IN
        /\ docStatus[d] = NEEDS_REVIEW
        /\ docData[d] # 0
        /\ runStatus[docRun[d]] = NEEDS_REVIEW
        /\ pc[d] = "done"
        /\ raised[d] = "none"

\* a task's index write failed and the task ended, nothing indexed
TaskEndedAfterIndexFailure ==
    /\ last[1] = "index_failed"
    /\ pc[last[2]] = "done"
    /\ executions[last[2]] > 0
    /\ index[last[2]] = 0

\* ------------------------------------------------------ input file of a task
\* C28: the file uploaded with a submission is at its temp path when each retry
\* of the submission begins, and it is removed only by the end of the
\* submission's last attempt (success, or failure with the retries used up).
InputFileKeptForRetries ==
    [][\A d \in Docs :
        /\ pc[d] = "queued" /\ pc'[d] = "started" /\ retries[d] > 0
           => tempFile[docName[d]] = d
        /\ DocExists(d) /\ tempFile[docName[d]] = d /\ tempFile'[docName[d]] # d
           => pc'[d] \in {"done", "failed"}]_vars

\* ------------------------------------------------- overlapping submissions
\* C29: of two submissions whose processing overlaps, each one's pipeline reads
\* the bytes uploaded with that submission (the results stored for a document
\* come from its own upload), and no step of another submission overwrites or
\* removes the input file of a submission that has not read it yet.
SubmissionsReadTheirOwnInput ==
    /\ [](\A d \in Docs : docData[d] \in {0, d})
    /\ [][\A d \in Docs :
            /\ pc[d] \in {"queued", "started"}
            /\ tempFile[docName[d]] = d
            /\ tempFile'[docName[d]] # d
            => pc'[d] # pc[d]]_vars

\* ------------------------------------------------------------ storage keys
\* C30: no two documents hold the same storage key, and no stored blob is
\* overwritten by a later upload: the key an upload obtained from
\* find_available_key is written by no other upload, and no key is written for
\* two documents.
UploadsWriteDisjointKeys ==
    \A d, e \in Docs : (d # e /\ DocExists(d) /\ DocExists(e)) =>
        /\ docKey[d] # docKey[e]
        /\ docKey[d] \notin wrote[e]
        /\ wrote[d] \cap wrote[e] = {}

====
